---- MODULE Spec2Model ----
(***************************************************************************)
(* Model of homeassistant/components/kitchen_sink/__init__.py: the two     *)
(* synthetic statistics generators (_generate_mean_statistics and          *)
(* _insert_sum_statistics) and their driver _insert_statistics.            *)
(*                                                                         *)
(* Instants are integers counted in ticks of half an hour, so that ranges  *)
(* that are not a whole number of hours exist.  Floats are fixed-point     *)
(* integers counted in units of 1/One.  A draw of random() is a numerator  *)
(* r over DrawDen, so r/DrawDen lies in [0, 1).                            *)
(***************************************************************************)
EXTENDS Integers, Sequences, FiniteSets, TLC

\* ------------------------------------------------------------------ bounds

\* Largest instant (in ticks) a harness call takes as start or end.
MaxT == 4

\* Length in hours of the window _insert_statistics fills (the code's day).
DayHours == 2

\* --------------------------------------------------------------- numbers

\* datetime.timedelta(hours=1), in ticks.
Hour == 2

\* datetime.timedelta(days=1), in ticks.
Day == DayHours * Hour

\* The float 1.0, in fixed-point units.
One == 4000

\* random() returns r / DrawDen for a numerator r of Draws: 0, 0.5 and 0.75.
DrawDen == 4

Draws == {0, 2, 3}

\* The draw 0.5.
Half == DrawDen \div 2

\* r * max_diff for a draw of numerator r.
Scaled(r, md) == (r * md) \div DrawDen

\* max_diff values of the harness calls: -1.0, 0.0 and 1.0.
MaxDiffs == {0 - One, 0, One}

\* init_value values of the harness calls: 0.0 and 15.0.
InitValues == {0, 15 * One}

Instants == 0..MaxT

\* ------------------------------------------------------------- metadata

DOMAIN_NAME == "kitchen_sink"

MetaTemperature ==
    [source |-> DOMAIN_NAME, name |-> "Outdoor temperature",
     statistic_id |-> "kitchen_sink:temperature_outdoor",
     unit_of_measurement |-> "CELSIUS", has_mean |-> TRUE, has_sum |-> FALSE]

MetaEnergyKwh ==
    [source |-> DOMAIN_NAME, name |-> "Energy consumption 1",
     statistic_id |-> "kitchen_sink:energy_consumption_kwh",
     unit_of_measurement |-> "KILO_WATT_HOUR", has_mean |-> FALSE, has_sum |-> TRUE]

MetaEnergyMwhBothKinds ==
    [source |-> DOMAIN_NAME, name |-> "Energy consumption 2",
     statistic_id |-> "kitchen_sink:energy_consumption_mwh",
     unit_of_measurement |-> "MEGA_WATT_HOUR", has_mean |-> TRUE, has_sum |-> TRUE]

MetaEnergyMwh ==
    [source |-> DOMAIN_NAME, name |-> "Energy consumption 2",
     statistic_id |-> "kitchen_sink:energy_consumption_mwh",
     unit_of_measurement |-> "MEGA_WATT_HOUR", has_mean |-> FALSE, has_sum |-> TRUE]

MetaGasM3 ==
    [source |-> DOMAIN_NAME, name |-> "Gas consumption 1",
     statistic_id |-> "kitchen_sink:gas_consumption_m3",
     unit_of_measurement |-> "CUBIC_METERS", has_mean |-> FALSE, has_sum |-> TRUE]

MetaGasFt3 ==
    [source |-> DOMAIN_NAME, name |-> "Gas consumption 2",
     statistic_id |-> "kitchen_sink:gas_consumption_ft3",
     unit_of_measurement |-> "CUBIC_FEET", has_mean |-> FALSE, has_sum |-> TRUE]

\* The metadata of the k-th statement group of _insert_statistics.
StageMeta(k) ==
    CASE k = 1 -> MetaTemperature
      [] k = 2 -> MetaEnergyKwh
      [] k = 3 -> MetaEnergyMwh
      [] k = 4 -> MetaGasM3
      [] OTHER -> MetaGasFt3

\* The max_diff argument of the k-th call: 1, 1, 0.001, 0.5, 15.
StageMaxDiff(k) ==
    CASE k = 1 -> One
      [] k = 2 -> One
      [] k = 3 -> One \div 1000
      [] k = 4 -> One \div 2
      [] OTHER -> 15 * One

LastStage == 5

SumMetas == {StageMeta(k) : k \in 2..LastStage}

\* ------------------------------------------------------- the generators

LoopCondInclusive(t, e) == t <= e

\* while now < end
LoopCond(t, e) == t < e

NextHourSkips(t) == t + Hour + 1

\* now = now + datetime.timedelta(hours=1)
NextHour(t) == t + Hour

MeanUpdateUncentred(m, r, md) == m + Scaled(r, md)

\* mean = mean + random() * max_diff - max_diff / 2
MeanUpdate(m, r, md) == m + Scaled(r, md) - (md \div 2)

MinOfMagnitude(m, r, md) ==
    m - (IF Scaled(r, md) < 0 THEN 0 - Scaled(r, md) ELSE Scaled(r, md))

\* "min": mean - random() * max_diff
MinOf(m, r, md) == m - Scaled(r, md)

MaxOfBelow(m, r, md) == m - Scaled(r, md)

\* "max": mean + random() * max_diff
MaxOf(m, r, md) == m + Scaled(r, md)

SumUpdateDown(s, r, md) == s - Scaled(r, md)

\* sum_ = sum_ + random() * max_diff
SumUpdate(s, r, md) == s + Scaled(r, md)

\* What get_last_statistics can return for one statistic_id: no entry, an
\* entry whose sum is None, and entries with the sums 0.0 and 10.0.
NoStats == [found |-> FALSE, isnull |-> FALSE, sum |-> 0]

ReadResults ==
    {NoStats,
     [found |-> TRUE, isnull |-> TRUE, sum |-> 0],
     [found |-> TRUE, isnull |-> FALSE, sum |-> 0],
     [found |-> TRUE, isnull |-> FALSE, sum |-> 10 * One]}

InitialSumZero(ls) == 0

\* if statistic_id in last_stats: sum_ = last_stats[statistic_id][0]["sum"] or 0
InitialSum(ls) ==
    IF ls.found
      THEN (IF ls.isnull \/ ls.sum = 0 THEN 0 ELSE ls.sum)
      ELSE 0

\* The key sets of the samples of a series.
Kinds(series) == {DOMAIN series[i] : i \in 1..Len(series)}

MeanKeys == {"start", "mean", "min", "max"}

SumKeys == {"start", "sum"}

\* yesterday.replace(hour=0, minute=0, second=0, microsecond=0)
Midnight(t) == t - (t % Day)

NoMeta ==
    [source |-> "", name |-> "", statistic_id |-> "", unit_of_measurement |-> "",
     has_mean |-> FALSE, has_sum |-> FALSE]

VARIABLES
    prog,        \* the entry point being run: "mean", "sum" or "insert"
    pc,          \* the position in the running function
    stage,       \* _insert_statistics: the statement group being executed
    wall,        \* _insert_statistics: dt_util.now()
    start, end, init_value, max_diff, metadata,   \* the call's arguments
    now, mean, sum_, statistics, last_stats,      \* the call's locals
    draws,       \* the numerators random() returned to the running call
    calls,       \* the calls made on the external store, in order
    sink,        \* what async_add_external_statistics accepted, in order
    err          \* the exception that reached the caller

vars == <<prog, pc, stage, wall, start, end, init_value, max_diff, metadata,
          now, mean, sum_, statistics, last_stats, draws, calls, sink, err>>

args == <<start, end, init_value, max_diff, metadata>>

Init ==
    /\ prog \in {"mean", "sum", "insert"}
    /\ pc = "call"
    /\ stage = 0
    /\ IF prog = "insert"
         THEN /\ wall \in Day..(Day + MaxT)
              /\ start = 0 /\ end = 0 /\ init_value = 0 /\ max_diff = 0
              /\ metadata = NoMeta
         ELSE /\ wall = 0
              /\ start \in Instants
              /\ end \in Instants
              /\ max_diff \in MaxDiffs
              /\ IF prog = "mean"
                   THEN init_value \in InitValues /\ metadata = NoMeta
                   ELSE init_value = 0 /\ metadata \in SumMetas
    /\ now = 0 /\ mean = 0 /\ sum_ = 0
    /\ statistics = <<>>
    /\ last_stats = NoStats
    /\ draws = <<>>
    /\ calls = <<>>
    /\ sink = <<>>
    /\ err = "none"

\* ---- _generate_mean_statistics

\* Lines 95-97, for the arguments (s, iv).
MeanEntry(s, iv) ==
    /\ statistics' = <<>>
    /\ mean' = iv
    /\ now' = s
    /\ draws' = <<>>
    /\ pc' = "mean_loop"

\* The harness calls _generate_mean_statistics(start, end, init_value, max_diff).
MeanCall ==
    /\ prog = "mean" /\ pc = "call"
    /\ MeanEntry(start, init_value)
    /\ UNCHANGED <<prog, stage, wall, args, sum_, last_stats, calls, sink, err>>

\* One iteration of the loop, lines 98-108.
MeanStep ==
    /\ pc = "mean_loop"
    /\ LoopCond(now, end)
    /\ \E r \in Draws, rmin \in Draws, rmax \in Draws :
         LET m == MeanUpdate(mean, r, max_diff) IN
           /\ mean' = m
           /\ statistics' = Append(statistics,
                  [start |-> now, mean |-> m,
                   min |-> MinOf(m, rmin, max_diff),
                   max |-> MaxOf(m, rmax, max_diff)])
           /\ draws' = draws \o <<r, rmin, rmax>>
    /\ now' = NextHour(now)
    /\ UNCHANGED <<prog, pc, stage, wall, args, sum_, last_stats, calls, sink, err>>

\* The loop ends and the list is returned, line 110.
MeanReturn ==
    /\ pc = "mean_loop"
    /\ ~LoopCond(now, end)
    /\ pc' = "mean_done"
    /\ UNCHANGED <<prog, stage, wall, args, now, mean, sum_, statistics,
                   last_stats, draws, calls, sink, err>>

\* ---- _insert_sum_statistics

\* Lines 120-123.
SumEntry(s) ==
    /\ statistics' = <<>>
    /\ now' = s
    /\ sum_' = 0
    /\ last_stats' = NoStats
    /\ draws' = <<>>
    /\ pc' = "sum_read"

\* The harness calls _insert_sum_statistics(hass, metadata, start, end, max_diff).
SumCall ==
    /\ prog = "sum" /\ pc = "call"
    /\ SumEntry(start)
    /\ UNCHANGED <<prog, stage, wall, args, mean, calls, sink, err>>

SumReadSkipped ==
    /\ pc = "sum_read"
    /\ pc' = "sum_loop"
    /\ UNCHANGED <<prog, stage, wall, args, now, mean, sum_, statistics,
                   last_stats, draws, calls, sink, err>>

\* Lines 125-129: the read returns, and its result sets the running sum.
SumRead ==
    /\ pc = "sum_read"
    /\ \E ls \in ReadResults :
         /\ last_stats' = ls
         /\ sum_' = InitialSum(ls)
    /\ calls' = Append(calls, [op |-> "read", id |-> metadata.statistic_id, ok |-> TRUE])
    /\ pc' = "sum_loop"
    /\ UNCHANGED <<prog, stage, wall, args, now, mean, statistics, draws, sink, err>>

SumReadFailSwallowed ==
    /\ pc = "sum_read"
    /\ calls' = Append(calls, [op |-> "read", id |-> metadata.statistic_id, ok |-> FALSE])
    /\ pc' = "sum_loop"
    /\ UNCHANGED <<prog, stage, wall, args, now, mean, sum_, statistics,
                   last_stats, draws, sink, err>>

\* Lines 125-127: the read raises; nothing catches it.
SumReadFail ==
    /\ pc = "sum_read"
    /\ calls' = Append(calls, [op |-> "read", id |-> metadata.statistic_id, ok |-> FALSE])
    /\ err' = "read"
    /\ pc' = "raised"
    /\ UNCHANGED <<prog, stage, wall, args, now, mean, sum_, statistics,
                   last_stats, draws, sink>>

\* One iteration of the loop, lines 130-138.
SumStep ==
    /\ pc = "sum_loop"
    /\ LoopCond(now, end)
    /\ \E r \in Draws :
         LET s == SumUpdate(sum_, r, max_diff) IN
           /\ sum_' = s
           /\ statistics' = Append(statistics, [start |-> now, sum |-> s])
           /\ draws' = Append(draws, r)
    /\ now' = NextHour(now)
    /\ UNCHANGED <<prog, pc, stage, wall, args, mean, last_stats, calls, sink, err>>

\* The loop ends, line 130.
SumLoopEnd ==
    /\ pc = "sum_loop"
    /\ ~LoopCond(now, end)
    /\ pc' = "sum_write"
    /\ UNCHANGED <<prog, stage, wall, args, now, mean, sum_, statistics,
                   last_stats, draws, calls, sink, err>>

\* async_add_external_statistics(hass, meta, series) accepts the series.
Ingest(meta, series) ==
    /\ calls' = Append(calls, [op |-> "write", id |-> meta.statistic_id, ok |-> TRUE])
    /\ sink' = Append(sink, [metadata |-> meta, kinds |-> Kinds(series),
                             n |-> Len(series)])

\* async_add_external_statistics(hass, meta, series) raises.
IngestFail(meta) ==
    /\ calls' = Append(calls, [op |-> "write", id |-> meta.statistic_id, ok |-> FALSE])
    /\ err' = "write"
    /\ pc' = "raised"
    /\ UNCHANGED sink

\* Line 140: the whole list goes to the sink and the function returns.
SumWrite ==
    /\ pc = "sum_write"
    /\ Ingest(metadata, statistics)
    /\ pc' = "sum_done"
    /\ UNCHANGED <<prog, stage, wall, args, now, mean, sum_, statistics,
                   last_stats, draws, err>>

\* Line 140: the write raises; nothing catches it.
SumWriteFail ==
    /\ pc = "sum_write"
    /\ IngestFail(metadata)
    /\ UNCHANGED <<prog, stage, wall, args, now, mean, sum_, statistics,
                   last_stats, draws>>

\* ---- _insert_statistics

yesterday_midnight == Midnight(wall - Day)

today_midnight == yesterday_midnight + Day

\* Lines 145-159: the window, the temperature metadata and the call of
\* _generate_mean_statistics(yesterday_midnight, today_midnight, 15, 1).
InsertCallMean ==
    /\ prog = "insert" /\ pc = "call"
    /\ stage' = 1
    /\ metadata' = StageMeta(1)
    /\ start' = yesterday_midnight
    /\ end' = today_midnight
    /\ init_value' = 15 * One
    /\ max_diff' = StageMaxDiff(1)
    /\ MeanEntry(yesterday_midnight, 15 * One)
    /\ UNCHANGED <<prog, wall, sum_, last_stats, calls, sink, err>>

\* Line 160: the temperature series goes to the sink.
InsertWriteMean ==
    /\ prog = "insert" /\ pc = "mean_done"
    /\ Ingest(metadata, statistics)
    /\ pc' = "next"
    /\ UNCHANGED <<prog, stage, wall, args, now, mean, sum_, statistics,
                   last_stats, draws, err>>

\* Line 160: the write raises; nothing catches it.
InsertWriteMeanFail ==
    /\ prog = "insert" /\ pc = "mean_done"
    /\ IngestFail(metadata)
    /\ UNCHANGED <<prog, stage, wall, args, now, mean, sum_, statistics,
                   last_stats, draws>>

\* Lines 164-212: the next metadata and the call of _insert_sum_statistics.
InsertCallSum ==
    /\ prog = "insert" /\ pc = "next"
    /\ stage < LastStage
    /\ stage' = stage + 1
    /\ metadata' = StageMeta(stage + 1)
    /\ start' = yesterday_midnight
    /\ end' = today_midnight
    /\ max_diff' = StageMaxDiff(stage + 1)
    /\ SumEntry(yesterday_midnight)
    /\ UNCHANGED <<prog, wall, init_value, mean, calls, sink, err>>

\* An awaited _insert_sum_statistics returns to _insert_statistics.
InsertSumReturn ==
    /\ prog = "insert" /\ pc = "sum_done"
    /\ pc' = "next"
    /\ UNCHANGED <<prog, stage, wall, args, now, mean, sum_, statistics,
                   last_stats, draws, calls, sink, err>>

\* After line 212 _insert_statistics returns.
InsertReturn ==
    /\ prog = "insert" /\ pc = "next"
    /\ stage = LastStage
    /\ pc' = "done"
    /\ UNCHANGED <<prog, stage, wall, args, now, mean, sum_, statistics,
                   last_stats, draws, calls, sink, err>>

Next ==
    \/ MeanCall
    \/ MeanStep
    \/ MeanReturn
    \/ SumCall
    \/ SumRead
    \/ SumReadFail
    \/ SumStep
    \/ SumLoopEnd
    \/ SumWrite
    \/ SumWriteFail
    \/ InsertCallMean
    \/ InsertWriteMean
    \/ InsertWriteMeanFail
    \/ InsertCallSum
    \/ InsertSumReturn
    \/ InsertReturn

Spec == Init /\ [][Next]_vars

\* ------------------------------------------------------------ the claims

CeilDiv(a, b) == (a + b - 1) \div b

\* The number of hourly ticks t = s, s + 1h, ... with t < e.
Ticks(s, e) == IF s < e THEN CeilDiv(e - s, Hour) ELSE 0

\* The running list holds mean-kind (sum-kind) samples.
IsMeanSeries == Kinds(statistics) = {MeanKeys}

IsSumSeries == Kinds(statistics) = {SumKeys}

\* The calls made on the store for one statistic_id, in order.
CallsFor(id) == LET Mine(c) == c.id = id IN SelectSeq(calls, Mine)

ReadOk(id) == [op |-> "read", id |-> id, ok |-> TRUE]

WriteOk(id) == [op |-> "write", id |-> id, ok |-> TRUE]

AllHalf == \A i \in 1..Len(draws) : draws[i] = Half

\* C1: for start < end, _generate_mean_statistics returns exactly
\* ceil((end - start) / 1 hour) samples, the first stamped start, each later
\* one stamped one hour after its predecessor, every stamp in [start, end).
C1_HourlySamples ==
    (pc = "mean_done" /\ start < end) =>
        /\ Len(statistics) = CeilDiv(end - start, Hour)
        /\ statistics[1].start = start
        /\ \A i \in 2..Len(statistics) :
               statistics[i].start = statistics[i - 1].start + Hour
        /\ \A i \in 1..Len(statistics) :
               start <= statistics[i].start /\ statistics[i].start < end

\* A call over a range that is not a whole number of hours has returned.
C1_Witness ==
    /\ prog = "mean" /\ pc = "mean_done"
    /\ start > 0
    /\ (end - start) % Hour # 0
    /\ Len(statistics) = 2

\* C2: for start >= end both generators produce the empty series, whatever
\* init_value, max_diff and the continuation state are; the sum generator
\* hands that empty series to the sink.
C2_EmptyRange ==
    start >= end =>
        /\ pc = "mean_done" => statistics = <<>>
        /\ pc \in {"sum_write", "sum_done"} => statistics = <<>>
        /\ pc = "sum_done" => sink[Len(sink)].n = 0 /\ sink[Len(sink)].kinds = {}

\* The sum generator has handed over the series of an inverted range, with a
\* recorded sum to continue from and a non-zero max_diff.
C2_Witness ==
    /\ prog = "sum" /\ pc = "sum_done"
    /\ start > end
    /\ max_diff # 0
    /\ last_stats.found /\ last_stats.sum > 0
    /\ Len(sink) = 1

\* C3: with max_diff >= 0 the sums of the series of _insert_sum_statistics
\* never decrease from one sample to the next, for every continuation value
\* and every sequence of draws.
C3_SumNonDecreasing ==
    (IsSumSeries /\ max_diff >= 0) =>
        \A i \in 1..(Len(statistics) - 1) :
            statistics[i].sum <= statistics[i + 1].sum

\* A continued series with a strict increase has been handed to the sink.
C3_Witness ==
    /\ pc = "sum_done"
    /\ max_diff > 0
    /\ last_stats.found /\ last_stats.sum > 0
    /\ Len(statistics) >= 2
    /\ statistics[1].sum < statistics[2].sum

\* C4: the running sum starts from the recorded sum the store returned for
\* the statistic_id (a null recorded sum counts as 0) and from 0 when the
\* store has no record; with every draw 0.5 and max_diff = 1 over two hours
\* an absent record yields sums 0.5, 1.0 and a recorded 10.0 yields 10.5, 11.0.
C4_Continuation ==
    IsSumSeries =>
        LET base == IF last_stats.found /\ ~last_stats.isnull
                      THEN last_stats.sum ELSE 0
        IN /\ statistics[1].sum = base + (draws[1] * max_diff) \div DrawDen
           /\ (/\ pc = "sum_done" /\ AllHalf /\ max_diff = One
               /\ end - start = 2 * Hour) =>
                  /\ Len(statistics) = 2
                  /\ ~last_stats.found =>
                        /\ statistics[1].sum = One \div 2
                        /\ statistics[2].sum = One
                  /\ (last_stats.found /\ last_stats.sum = 10 * One) =>
                        /\ statistics[1].sum = 10 * One + One \div 2
                        /\ statistics[2].sum = 11 * One

\* The continued example: recorded 10.0, draws 0.5, max_diff 1, two hours.
C4_Witness ==
    /\ pc = "sum_done" /\ AllHalf /\ max_diff = One
    /\ end - start = 2 * Hour
    /\ last_stats.found /\ last_stats.sum = 10 * One
    /\ statistics[2].sum = 11 * One

\* C5: an invocation of _insert_sum_statistics makes no store call before
\* its read, computes no sum before the read has returned, and on completion
\* has made exactly one read and then exactly one write for its
\* statistic_id, the write carrying the whole series.
C5_OneReadThenOneWrite ==
    LET id == metadata.statistic_id IN
        /\ pc = "sum_read" =>
              CallsFor(id) = <<>> /\ statistics = <<>> /\ draws = <<>>
        /\ pc \in {"sum_loop", "sum_write"} => CallsFor(id) = <<ReadOk(id)>>
        /\ pc = "sum_done" =>
              /\ CallsFor(id) = <<ReadOk(id), WriteOk(id)>>
              /\ calls[Len(calls)] = WriteOk(id)
              /\ sink[Len(sink)] = [metadata |-> metadata,
                                    kinds |-> Kinds(statistics),
                                    n |-> Ticks(start, end)]
              /\ Len(statistics) = Ticks(start, end)

\* The second sum series of _insert_statistics has been written.
C5_Witness ==
    /\ prog = "insert" /\ stage = 3 /\ pc = "sum_done"
    /\ Len(calls) = 5
    /\ Len(statistics) = DayHours

\* C6: a failed read or write reaches the caller and ends the run: it is the
\* last call made, it is not repeated, a failed read is followed by no write,
\* and whatever the sink accepted is a whole series.
C6_FailurePropagates ==
    LET id == metadata.statistic_id
        Failed(c) == ~c.ok
        Writes(c) == c.op = "write"
    IN /\ \A i \in 1..Len(calls) :
              ~calls[i].ok => (i = Len(calls) /\ pc = "raised" /\ err = calls[i].op)
       /\ err # "none" =>
              /\ pc = "raised"
              /\ Len(SelectSeq(calls, Failed)) = 1
              /\ ~calls[Len(calls)].ok
       /\ err = "read" => SelectSeq(CallsFor(id), Writes) = <<>>
       /\ Len(SelectSeq(CallsFor(id), Writes)) <= 1
       /\ \A i \in 1..Len(sink) :
              /\ sink[i].n = Ticks(start, end)
              /\ sink[i].metadata.statistic_id # id \/ pc \in {"sum_done", "next", "done"}

\* The read of the second sum series failed after two series were accepted.
C6_Witness ==
    /\ prog = "insert" /\ stage = 3
    /\ err = "read" /\ pc = "raised"
    /\ Len(sink) = 2
    /\ Len(calls) = 4

\* The example of C7: every draw 0.5, init_value 15, max_diff 1, two hours.
C7_Example ==
    /\ pc = "mean_done" /\ AllHalf
    /\ init_value = 15 * One /\ max_diff = One
    /\ end - start = 2 * Hour

\* C7 as stated: in the example each of the two samples has mean 15.0,
\* min 14.75 and max 15.25.
C7_Original ==
    C7_Example =>
        /\ Len(statistics) = 2
        /\ \A i \in 1..2 :
              /\ statistics[i].mean = 15 * One
              /\ statistics[i].min = 15 * One - One \div 4
              /\ statistics[i].max = 15 * One + One \div 4

\* C7 as amended: the running mean starts at init_value and at every tick
\* becomes mean + r * max_diff - max_diff / 2 before the sample is emitted;
\* the sample carries that mean, min = mean - r_min * max_diff and
\* max = mean + r_max * max_diff.  In the example each of the two samples
\* has mean 15.0, min 14.5 and max 15.5.
C7_MeanWalk ==
    IsMeanSeries =>
        /\ Len(draws) = 3 * Len(statistics)
        /\ mean = statistics[Len(statistics)].mean
        /\ \A i \in 1..Len(statistics) :
              LET prev == IF i = 1 THEN init_value ELSE statistics[i - 1].mean
                  r    == draws[3 * i - 2]
                  rmin == draws[3 * i - 1]
                  rmax == draws[3 * i]
              IN /\ 2 * DrawDen * statistics[i].mean
                      = 2 * DrawDen * prev + 2 * r * max_diff - DrawDen * max_diff
                 /\ DrawDen * statistics[i].min
                      = DrawDen * statistics[i].mean - rmin * max_diff
                 /\ DrawDen * statistics[i].max
                      = DrawDen * statistics[i].mean + rmax * max_diff
        /\ C7_Example =>
              /\ Len(statistics) = 2
              /\ \A i \in 1..2 :
                    /\ statistics[i].mean = 15 * One
                    /\ statistics[i].min = 15 * One - One \div 2
                    /\ statistics[i].max = 15 * One + One \div 2

\* The example has run to its end.
C7_Witness ==
    /\ C7_Example
    /\ Len(statistics) = 2
    /\ statistics[2].min = 15 * One - One \div 2

C9_MetadataMatchesKind ==
    prog = "insert" =>
        /\ \A i \in 1..Len(sink) :
              /\ sink[i].metadata = StageMeta(i)
              /\ sink[i].metadata.has_mean # sink[i].metadata.has_sum
              /\ sink[i].metadata.has_mean <=> (i = 1)
              /\ sink[i].metadata.has_mean => sink[i].kinds = {MeanKeys}
              /\ sink[i].metadata.has_sum => sink[i].kinds = {SumKeys}
              /\ \A j \in 1..Len(sink) :
                    i # j => sink[i].metadata.statistic_id
                               # sink[j].metadata.statistic_id
        /\ (pc \in {"sum_write", "mean_done"} \/ err = "write") =>
              /\ metadata.has_mean # metadata.has_sum
              /\ metadata.has_mean => IsMeanSeries
              /\ metadata.has_sum => IsSumSeries
        /\ pc = "done" => Len(sink) = LastStage

\* _insert_statistics has returned after its five writes.
C9_Witness ==
    /\ prog = "insert" /\ pc = "done"
    /\ Len(sink) = LastStage
    /\ sink[1].metadata.has_mean
    /\ sink[LastStage].metadata.has_sum

\* C10: whenever max_diff >= 0 every sample of _generate_mean_statistics
\* has min <= mean <= max, for every init_value and every draw sequence, so
\* also at the call site of _insert_statistics (init_value 15, max_diff 1).
C10_OrderedWhenNonNegative ==
    (IsMeanSeries /\ max_diff >= 0) =>
        \A i \in 1..Len(statistics) :
            /\ statistics[i].min <= statistics[i].mean
            /\ statistics[i].mean <= statistics[i].max

\* The call of _insert_statistics has returned samples strictly ordered.
C10_Witness ==
    /\ prog = "insert" /\ pc = "mean_done"
    /\ init_value = 15 * One /\ max_diff = One
    /\ Len(statistics) = DayHours
    /\ \A i \in 1..Len(statistics) :
          /\ statistics[i].min < statistics[i].mean
          /\ statistics[i].mean < statistics[i].max

====
